---- MODULE Spec2Model ----
(***************************************************************************)
(* Go-to-definition provider of the dryck-syntax extension (extension.js). *)
(*                                                                         *)
(* A line of text is a sequence of one-character strings; the lozenge      *)
(* U+25CA (one UTF-16 unit, one column) is written Lozenge.  Columns and   *)
(* match indices are 0-based as in JavaScript, so the character at index k *)
(* is line[k + 1].                                                         *)
(***************************************************************************)
EXTENDS Integers, Sequences, FiniteSets, TLC

VARIABLES
    pc,         \* where the running operation stands
    line,       \* document.lineAt(position.line).text
    col,        \* position.character
    token,      \* the reference token the line was written around
    name,       \* what extractFunctionName returned
    exists,     \* the file candidates that exist
    fileUri,    \* what findDryckFile returned
    result,     \* what the operation returned
    calls,      \* capability calls made so far, per capability
    wsSymbols,  \* reply of vscode.executeWorkspaceSymbolProvider
    docSymbols, \* reply of vscode.executeDocumentSymbolProvider
    items,      \* reply of vscode.prepareTypeHierarchy
    supers,     \* reply of vscode.provideTypeHierarchySupertypes, per node
    className,  \* the class isContextSubclass is asked about
    pyLine,     \* position.line findContainingClassName is asked about
    queue,      \* isContextSubclass: BFS queue
    visited,    \* isContextSubclass: visited keys
    steps       \* isContextSubclass: supertype expansions made

vars == <<pc, line, col, token, name, exists, fileUri, result, calls,
          wsSymbols, docSymbols, items, supers, className, pyLine,
          queue, visited, steps>>

\* JavaScript null / undefined (a name is never the empty string).
Null == <<>>

\* What a capability call resolves to: undefined, or an array.
Undefined == [undef |-> TRUE, list |-> <<>>]
List(s) == [undef |-> FALSE, list |-> s]

\* The sequences over S of length at most n.
SeqsUpTo(S, n) == UNION {[1..k -> S] : k \in 0..n}

(***************************************************************************)
(* extractFunctionName                                                     *)
(***************************************************************************)
Lozenge == "<>"

\* [a-zA-Z_]
IdStartChars == {"a", "_"}
\* [a-zA-Z0-9_-]
IdChars == {"a", "_", "1", "-"}
\* [a-zA-Z_.]
ParenStartChars == {"a", "_", "."}
\* [a-zA-Z0-9_.]
ParenChars == {"a", "_", "1", "."}
\* \s
SpaceChars == {" "}

\* The character at 0-based index i, or "" past the end of the line.
CharAt(l, i) == IF i >= 0 /\ i < Len(l) THEN l[i + 1] ELSE ""

\* Greedy C*: the index after the longest run of characters of C from i.
RECURSIVE RunEnd(_, _, _)
RunEnd(l, i, C) == IF CharAt(l, i) \in C THEN RunEnd(l, i + 1, C) ELSE i

\* (?=\s*:) at index j.
ColonAhead(l, j) == CharAt(l, RunEnd(l, j, SpaceChars)) = ":"

\* The 0-based slice l[from .. to-1].
Slice(l, from, to) == SubSeq(l, from + 1, to)

NoMatch == [len |-> 0, name |-> Null]

\* /<>\(([a-zA-Z_.][a-zA-Z0-9_.]*)\)/ anchored at index i.
MatchParen(l, i) ==
    IF CharAt(l, i) = Lozenge /\ CharAt(l, i + 1) = "("
       /\ CharAt(l, i + 2) \in ParenStartChars
    THEN LET j == RunEnd(l, i + 3, ParenChars)
         IN  IF CharAt(l, j) = ")"
             THEN [len |-> j + 1 - i, name |-> Slice(l, i + 2, j)]
             ELSE NoMatch
    ELSE NoMatch

\* /<>([a-zA-Z_][a-zA-Z0-9_-]*)(?=\s*:)/ anchored at index i: the identifier
\* is greedy and backtracks to the longest length the lookahead accepts.
MatchColon(l, i) ==
    IF CharAt(l, i) = Lozenge /\ CharAt(l, i + 1) \in IdStartChars
    THEN LET j  == RunEnd(l, i + 2, IdChars)
             ok == {k \in (i + 2)..j : ColonAhead(l, k)}
         IN  IF ok # {}
             THEN LET k == CHOOSE m \in ok : \A n \in ok : n <= m
                  IN  [len |-> k - i, name |-> Slice(l, i + 1, k)]
             ELSE NoMatch
    ELSE NoMatch

\* /<>([a-zA-Z_][a-zA-Z0-9_-]*)/ anchored at index i.
MatchBare(l, i) ==
    IF CharAt(l, i) = Lozenge /\ CharAt(l, i + 1) \in IdStartChars
    THEN LET j == RunEnd(l, i + 2, IdChars)
         IN  [len |-> j - i, name |-> Slice(l, i + 1, j)]
    ELSE NoMatch

\* The patterns array, in its order.
patterns == <<"paren", "colon", "bare">>

MatchAt(re, l, i) ==
    CASE re = "paren" -> MatchParen(l, i)
      [] re = "colon" -> MatchColon(l, i)
      [] re = "bare"  -> MatchBare(l, i)

\* re.exec(line) with the g flag from lastIndex: the leftmost match at or
\* after lastIndex, as [index, len, name]; len = 0 when there is none.
RECURSIVE Exec(_, _, _)
Exec(re, l, lastIndex) ==
    IF lastIndex >= Len(l) THEN [index |-> lastIndex, len |-> 0, name |-> Null]
    ELSE LET m == MatchAt(re, l, lastIndex)
         IN  IF m.len > 0
             THEN [index |-> lastIndex, len |-> m.len, name |-> m.name]
             ELSE Exec(re, l, lastIndex + 1)

\* The exclusive comparison a cursor test could have been written with.
ContainsExclusive(c, start, end) == c >= start /\ c < end

\* col >= start && col <= end
Contains(c, start, end) == c >= start /\ c <= end

\* The while loop over one pattern's matches.
RECURSIVE ScanMatches(_, _, _, _)
ScanMatches(re, l, lastIndex, c) ==
    LET m == Exec(re, l, lastIndex)
    IN  IF m.len = 0 THEN Null
        ELSE IF Contains(c, m.index, m.index + m.len) THEN m.name
        ELSE ScanMatches(re, l, m.index + m.len, c)

\* The for loop over the patterns.
RECURSIVE ScanPatterns(_, _, _)
ScanPatterns(p, l, c) ==
    IF p > Len(patterns) THEN Null
    ELSE LET n == ScanMatches(patterns[p], l, 0, c)
         IN  IF n # Null THEN n ELSE ScanPatterns(p + 1, l, c)

extractFunctionName(l, c) == ScanPatterns(1, l, c)

(***************************************************************************)
(* The Python side.  One Python file is open to the symbol providers; a    *)
(* hierarchy node is the pair of its uri and its name.                     *)
(***************************************************************************)
PyFile == "app.py"

Node(uri, nm) == [uri |-> uri, name |-> nm]
PageNode == Node(PyFile, "Page")
OtherNode == Node(PyFile, "Other")
MidNode == Node("appeldryck/page.py", "Mid")
DecoyNode == Node("site/context.py", "Context")
BaseNode == Node("appeldryck/context.py", "Context")
Nodes == {PageNode, OtherNode, MidNode, DecoyNode, BaseNode}

\* uri.fsPath.includes('appeldryck')
IncludesAppeldryck(uri) == uri \in {"appeldryck/page.py", "appeldryck/context.py"}

\* A base test that looks at the name alone.
IsBaseByName(sup) == sup.name = "Context"

\* sup.name === 'Context' && sup.uri.fsPath.includes('appeldryck')
IsBase(sup) == sup.name = "Context" /\ IncludesAppeldryck(sup.uri)

\* sup.uri.toString() + ':' + sup.name
Key(sup) == <<sup.uri, sup.name>>

\* The for loop over the supertypes of one item, from the i-th on;
\* st is [queue, visited, steps, found].
RECURSIVE ForSupertypes(_, _, _)
ForSupertypes(sups, i, st) ==
    IF i > Len(sups) THEN st
    ELSE LET sup == sups[i]
         IN  IF Key(sup) \in st.visited THEN ForSupertypes(sups, i + 1, st)
             ELSE IF IsBase(sup)
             THEN [st EXCEPT !.visited = @ \cup {Key(sup)}, !.found = TRUE]
             ELSE ForSupertypes(sups, i + 1,
                      [st EXCEPT !.visited = @ \cup {Key(sup)},
                                 !.queue = Append(@, sup)])

\* One turn of the while loop: shift the queue, ask for the item's supertypes.
Expand(st) ==
    LET item  == Head(st.queue)
        reply == supers[item]
        rest  == [st EXCEPT !.queue = Tail(@), !.steps = @ + 1]
    IN  IF reply.undef THEN rest ELSE ForSupertypes(reply.list, 1, rest)

\* The while loop, to its end.
RECURSIVE Bfs(_)
Bfs(st) ==
    IF st.found THEN TRUE
    ELSE IF st.queue = <<>> THEN FALSE
    ELSE Bfs(Expand(st))

\* docSymbols.find(s => s.name === className && s.kind === Class && s.selectionRange):
\* the index of the first such symbol, 0 when there is none.
RECURSIVE FindClassSym(_, _, _)
FindClassSym(syms, cls, i) ==
    IF i > Len(syms) THEN 0
    ELSE IF syms[i].name = cls /\ syms[i].kind = "Class" /\ syms[i].hasSelectionRange
    THEN i
    ELSE FindClassSym(syms, cls, i + 1)

\* Lines 86-104: the two early returns before the search starts.
HasHierarchy(cls) ==
    /\ ~docSymbols.undef
    /\ FindClassSym(docSymbols.list, cls, 1) # 0
    /\ ~items[cls].undef
    /\ Len(items[cls].list) # 0

StartOfBfs(cls) ==
    [queue |-> items[cls].list, visited |-> {}, steps |-> 0, found |-> FALSE]

isContextSubclass(pyUri, cls) ==
    IF HasHierarchy(cls) THEN Bfs(StartOfBfs(cls)) ELSE FALSE

\* The for loop of findContainingClassName from the i-th symbol on.
RECURSIVE FirstBracketingClass(_, _, _)
FirstBracketingClass(syms, ln, i) ==
    IF i > Len(syms) THEN ""
    ELSE IF syms[i].kind # "Class" \/ ~syms[i].hasRange
    THEN FirstBracketingClass(syms, ln, i + 1)
    ELSE IF ln >= syms[i].startLine /\ ln <= syms[i].endLine
    THEN syms[i].name
    ELSE FirstBracketingClass(syms, ln, i + 1)

\* The name of the enclosing class, "" for null.
findContainingClassName(pyUri, ln) ==
    IF docSymbols.undef THEN ""
    ELSE FirstBracketingClass(docSymbols.list, ln, 1)

\* A loop body that keeps every method.
KeepsAnyMethod(s) == s.kind = "Function" \/ s.kind = "Method"

\* Lines 173-181: whether the loop body pushes the symbol.
Keeps(s) ==
    \/ s.kind = "Function"
    \/ /\ s.kind = "Method"
       /\ LET cls == IF s.containerName # "" THEN s.containerName
                     ELSE findContainingClassName(s.uri, s.line)
          IN  cls # "" /\ isContextSubclass(s.uri, cls)

\* new vscode.Location(s.location.uri, s.location.range)
LocationOf(s) == [uri |-> s.uri, line |-> s.line]

\* The for loop of findPythonDefinition from the i-th symbol on.
RECURSIVE ForSymbols(_, _, _, _)
ForSymbols(syms, n, i, results) ==
    IF i > Len(syms) THEN results
    ELSE IF syms[i].name # n THEN ForSymbols(syms, n, i + 1, results)
    ELSE IF Keeps(syms[i])
    THEN ForSymbols(syms, n, i + 1, Append(results, LocationOf(syms[i])))
    ELSE ForSymbols(syms, n, i + 1, results)

findPythonDefinition(n) ==
    IF wsSymbols.undef \/ Len(wsSymbols.list) = 0 THEN <<>>
    ELSE ForSymbols(wsSymbols.list, n, 1, <<>>)

(***************************************************************************)
(* Lines written around one reference token, for the tokenizer's own       *)
(* specification.                                                          *)
(***************************************************************************)
\* Longest name and longest text before or after the token.
MaxName == 2
MaxPad == 1

\* The characters lines are written with: a letter, a digit, the hyphen and
\* the dot in names; a space, a colon, a letter and a brace around the token.
NameChars == {"a", "1", "-", "."}
PadChars == {" ", ":", "a", "{"}

NamesOver(Start, Rest) ==
    {s \in SeqsUpTo(Rest \cap NameChars, MaxName) : Len(s) >= 1 /\ s[1] \in Start}

Pads == SeqsUpTo(PadChars, MaxPad)

\* What may follow each form without changing which token the line holds.
AfterToken(form) ==
    CASE form = "paren" -> Pads
      [] form = "colon" -> {sp \o <<":">> \o p : sp \in SeqsUpTo(SpaceChars, MaxPad), p \in Pads}
      [] form = "bare"  -> {p \in Pads : CharAt(p, 0) \notin IdChars /\ ~ColonAhead(p, 0)}

TokenText(form, n) ==
    IF form = "paren" THEN <<Lozenge, "(">> \o n \o <<")">> ELSE <<Lozenge>> \o n

TokenNames(form) ==
    IF form = "paren" THEN NamesOver(ParenStartChars, ParenChars)
    ELSE NamesOver(IdStartChars, IdChars)

\* The lines holding one token of the given form, each with its token: the
\* form, the name and the span [start, end].
TokenLinesOf(form) ==
    {[line  |-> before \o TokenText(form, n) \o after,
      token |-> [form |-> form, name |-> n, start |-> Len(before),
                 end |-> Len(before) + Len(TokenText(form, n))]] :
        n \in TokenNames(form), before \in Pads, after \in AfterToken(form)}

TokenLines == UNION {TokenLinesOf(form) : form \in {"paren", "colon", "bare"}}

NoToken == [form |-> "none", name |-> Null, start |-> 0, end |-> 0]
NoCalls == [findDryckFile |-> 0, findFiles |-> 0, workspaceSymbols |-> 0]
NoResult == [kind |-> "pending"]

\* The variables of the Python side, at rest.
PythonIdle ==
    /\ wsSymbols = Undefined /\ docSymbols = Undefined
    /\ items = <<>> /\ supers = <<>> /\ className = "" /\ pyLine = 0
    /\ queue = <<>> /\ visited = {} /\ steps = 0

PythonUnchanged ==
    UNCHANGED <<wsSymbols, docSymbols, items, supers, className, pyLine,
                queue, visited, steps>>

TokInit ==
    /\ \E t \in TokenLines : line = t.line /\ token = t.token
    /\ col \in 0..(Len(line) + 1)
    /\ pc = "extract"
    /\ name = Null /\ exists = {} /\ fileUri = 0
    /\ result = NoResult /\ calls = NoCalls
    /\ PythonIdle

\* extractFunctionName(document, position) on the line under the cursor.
Extract ==
    /\ pc = "extract"
    /\ name' = extractFunctionName(line, col)
    /\ pc' = "extracted"
    /\ UNCHANGED <<line, col, token, exists, fileUri, result, calls>>
    /\ PythonUnchanged

TokNext == Extract

SpecTok == TokInit /\ [][TokNext]_vars

(***************************************************************************)
(* findDryckFile and provideDefinition                                     *)
(*                                                                         *)
(* The six candidates, in the order the loops try them:                    *)
(*   1 fromDir/name.dryck      2 fromDir/_name.dryck                       *)
(*   3 fromDir/../name.dryck   4 fromDir/../_name.dryck                    *)
(*   5 **/name.dryck           6 **/_name.dryck                            *)
(* fileUri is the candidate returned, 0 for null.                          *)
(***************************************************************************)
\* filenames = [name + '.dryck', '_' + name + '.dryck']
filenames == <<"plain", "underscore">>

CurrentDir == <<1, 2>>
ParentDir == <<3, 4>>
Workspace == <<5, 6>>
Candidates == {CurrentDir[v] : v \in 1..Len(filenames)}
              \cup {ParentDir[v] : v \in 1..Len(filenames)}
              \cup {Workspace[v] : v \in 1..Len(filenames)}

\* One of the for loops over filenames with fs.existsSync, from the v-th
\* filename on: the candidate that exists, 0 when the loop falls through.
RECURSIVE ForFilenames(_, _)
ForFilenames(scope, v) ==
    IF v > Len(filenames) THEN 0
    ELSE IF scope[v] \in exists THEN scope[v]
    ELSE ForFilenames(scope, v + 1)

\* The two loops in the other order: the parent directory first.
ParentBeforeCurrent ==
    LET par == ForFilenames(ParentDir, 1)
    IN  IF par # 0 THEN par ELSE ForFilenames(CurrentDir, 1)

\* Lines 51-65: the current directory's loop, then the parent's.
LocalCandidate ==
    LET cur == ForFilenames(CurrentDir, 1)
    IN  IF cur # 0 THEN cur ELSE ForFilenames(ParentDir, 1)

\* name.includes('.') that never finds the dot.
IncludesDotNever(n) == FALSE

\* name.includes('.')
IncludesDot(n) == \E i \in 1..Len(n) : n[i] = "."

\* new vscode.Location(uri, new vscode.Position(0, 0))
LocationAtStart(uri) == [kind |-> "location", uri |-> uri, line |-> 0, character |-> 0]
ReturnedNull == [kind |-> "null"]
ReturnedList(locs) == [kind |-> "list", locations |-> locs]

Called(what) == calls' = [calls EXCEPT ![what] = @ + 1]

\* Lines 187-191 and 52-65: tokenize; with a name, enter findDryckFile and run
\* its two synchronous loops.
ProvideDefinition ==
    /\ pc = "provideDefinition"
    /\ name' = extractFunctionName(line, col)
    /\ IF name' = Null
       THEN /\ result' = ReturnedNull
            /\ pc' = "done"
            /\ UNCHANGED <<fileUri, calls>>
       ELSE /\ Called("findDryckFile")
            /\ fileUri' = LocalCandidate
            /\ pc' = IF LocalCandidate # 0 THEN "resolved" ELSE "findFiles1"
            /\ UNCHANGED result
    /\ UNCHANGED <<line, col, token, exists>>
    /\ PythonUnchanged

\* Lines 68-75: vscode.workspace.findFiles for the v-th filename resolves to
\* an array, of one uri when the file is in the workspace.
FindFiles(v) ==
    /\ pc = IF v = 1 THEN "findFiles1" ELSE "findFiles2"
    /\ Called("findFiles")
    /\ IF Workspace[v] \in exists
       THEN fileUri' = Workspace[v] /\ pc' = "resolved"
       ELSE /\ fileUri' = 0
            /\ pc' = IF v < Len(filenames) THEN "findFiles2" ELSE "resolved"
    /\ UNCHANGED <<line, col, token, name, exists, result>>
    /\ PythonUnchanged

\* Line 70 when findFiles resolves to undefined: results.length throws, and
\* the request ends in the rejection.
FindFilesUndefined(v) ==
    /\ pc = IF v = 1 THEN "findFiles1" ELSE "findFiles2"
    /\ Called("findFiles")
    /\ pc' = "threw"
    /\ UNCHANGED <<line, col, token, name, exists, fileUri, result>>
    /\ PythonUnchanged

\* The rest of provideDefinition with the early return of line 192 missing:
\* the symbol index is asked even when a file was found.
AfterFindDryckFileAskingFirst ==
    /\ pc = "resolved"
    /\ Called("workspaceSymbols")
    /\ result' = IF fileUri # 0 THEN LocationAtStart(fileUri)
                 ELSE IF ~IncludesDot(name) THEN ReturnedList(findPythonDefinition(name))
                 ELSE ReturnedNull
    /\ pc' = "done"
    /\ UNCHANGED <<line, col, token, name, exists, fileUri>>
    /\ PythonUnchanged

\* Lines 192-202: the file's start; else, for a name without a dot,
\* findPythonDefinition; else null.
AfterFindDryckFile ==
    /\ pc = "resolved"
    /\ IF fileUri # 0
       THEN result' = LocationAtStart(fileUri) /\ UNCHANGED calls
       ELSE IF ~IncludesDot(name)
       THEN /\ Called("workspaceSymbols")
            /\ result' = ReturnedList(findPythonDefinition(name))
       ELSE result' = ReturnedNull /\ UNCHANGED calls
    /\ pc' = "done"
    /\ UNCHANGED <<line, col, token, name, exists, fileUri>>
    /\ PythonUnchanged

(***************************************************************************)
(* Replies of the Python tooling.                                          *)
(***************************************************************************)
DocSym(nm, kind, first, last) ==
    [name |-> nm, kind |-> kind, hasRange |-> TRUE, startLine |-> first,
     endLine |-> last, hasSelectionRange |-> TRUE, children |-> <<>>]

\* Outlines of the Python file: none; empty; two classes side by side; the
\* SymbolInformation format (no selectionRange); a class nested in a class,
\* as DocumentSymbol children and as a flat list; a function and a class
\* without a range before the class.
Outlines ==
    { Undefined,
      List(<<>>),
      List(<<DocSym("Page", "Class", 1, 5), DocSym("Other", "Class", 7, 9)>>),
      List(<<[DocSym("Page", "Class", 1, 5) EXCEPT !.hasSelectionRange = FALSE]>>),
      List(<<[DocSym("Other", "Class", 1, 9) EXCEPT
                 !.children = <<DocSym("Page", "Class", 3, 5)>>]>>),
      List(<<DocSym("Other", "Class", 1, 9), DocSym("Page", "Class", 3, 5)>>),
      List(<<DocSym("Other", "Function", 1, 9),
             [DocSym("Other", "Class", 1, 9) EXCEPT !.hasRange = FALSE],
             DocSym("Page", "Class", 3, 5)>>) }

ClassNames == {"Page", "Other"}
NodeOfClass(cls) == IF cls = "Page" THEN PageNode ELSE OtherNode

NoSupers == [n \in Nodes |-> List(<<>>)]

\* prepareTypeHierarchy answers with the class itself, or there is no type
\* hierarchy provider.
OwnItems == [c \in ClassNames |-> List(<<NodeOfClass(c)>>)]
NoItems == [c \in ClassNames |-> Undefined]

\* Page descends from the base through Mid.
ChainSupers == [NoSupers EXCEPT ![PageNode] = List(<<MidNode>>),
                                ![MidNode] = List(<<BaseNode>>)]
\* Page descends from a class that is only named like the base.
DecoySupers == [NoSupers EXCEPT ![PageNode] = List(<<MidNode>>),
                                ![MidNode] = List(<<DecoyNode>>),
                                ![DecoyNode] = Undefined]
\* Other is a direct subclass of the base, Page inherits in a cycle.
CycleSupers == [NoSupers EXCEPT ![OtherNode] = List(<<BaseNode>>),
                                ![PageNode] = List(<<MidNode>>),
                                ![MidNode] = List(<<PageNode>>)]

RequestHierarchies ==
    { [items |-> OwnItems, supers |-> ChainSupers],
      [items |-> OwnItems, supers |-> DecoySupers] }

Hierarchies ==
    RequestHierarchies \cup
    { [items |-> NoItems, supers |-> ChainSupers],
      [items |-> OwnItems, supers |-> CycleSupers] }

WsSymbol(nm, kind, container, ln) ==
    [name |-> nm, kind |-> kind, containerName |-> container, uri |-> PyFile, line |-> ln]

(***************************************************************************)
(* A go-to-definition request.                                             *)
(***************************************************************************)
\* Lines under the cursor: a bare name, a dotted name, a parenthesized name
\* without a dot, the colon form, no token, and two tokens.
RequestLines ==
    { <<Lozenge, "a">>,
      <<Lozenge, "(", "a", ".", "a", ")">>,
      <<Lozenge, "(", "a", ")">>,
      <<Lozenge, "a", ":", " ", "a">>,
      <<"a", " ", "a">>,
      <<Lozenge, "a", "1", " ", Lozenge, "(", "a", ".", "a", ")">> }

\* What the symbol index may answer a request: nothing, no symbol, a
\* function, a symbol named like a dotted name, a method of Page with and
\* without the container hint.
RequestSymbols ==
    { Undefined,
      List(<<>>),
      List(<<WsSymbol(<<"a">>, "Function", "", 8)>>),
      List(<<WsSymbol(<<"a", ".", "a">>, "Function", "", 8)>>),
      List(<<WsSymbol(<<"a">>, "Method", "Page", 4)>>),
      List(<<WsSymbol(<<"a">>, "Method", "", 4), WsSymbol(<<"a">>, "Function", "", 8)>>) }

RequestOutlines ==
    { Undefined,
      List(<<DocSym("Page", "Class", 1, 5), DocSym("Other", "Class", 7, 9)>>) }

Init ==
    /\ line \in RequestLines
    /\ col \in 0..Len(line)
    /\ exists \in SUBSET Candidates
    /\ wsSymbols \in RequestSymbols
    /\ docSymbols \in RequestOutlines
    /\ \E h \in RequestHierarchies : items = h.items /\ supers = h.supers
    /\ pc = "provideDefinition"
    /\ token = NoToken /\ name = Null /\ fileUri = 0
    /\ result = NoResult /\ calls = NoCalls
    /\ className = "" /\ pyLine = 0
    /\ queue = <<>> /\ visited = {} /\ steps = 0

Next ==
    \/ ProvideDefinition
    \/ \E v \in 1..Len(filenames) : FindFiles(v)
    \/ \E v \in 1..Len(filenames) : FindFilesUndefined(v)
    \/ AfterFindDryckFile

Spec == Init /\ [][Next]_vars

\* The earliest of the six candidates that exists, 0 when none does.
Earliest == IF exists = {} THEN 0
            ELSE CHOOSE k \in exists : \A j \in exists : k <= j

\* C1: findDryckFile returns the first existing candidate in the order
\* current/plain, current/underscore, parent/plain, parent/underscore,
\* workspace/plain, workspace/underscore, whichever of the six exist, and
\* none only when none exists.
FindDryckFileEarliest ==
    (pc \in {"resolved", "done"} /\ calls.findDryckFile > 0) => fileUri = Earliest

\* Both variants exist in the current directory and in the parent, and the
\* plain one of the current directory is returned.
FindDryckFilePlainWins ==
    /\ pc = "resolved"
    /\ {1, 2, 3, 4} \subseteq exists
    /\ fileUri = 1

\* Some symbol of the index carries the name under the cursor.
IndexHoldsName ==
    /\ ~wsSymbols.undef
    /\ \E i \in 1..Len(wsSymbols.list) : wsSymbols.list[i].name = name

\* The name under the cursor has a dot in it.
Dotted == name # Null /\ \E i \in 1..Len(name) : name[i] = "."

\* C2: a request for a name with a dot never queries the workspace symbol
\* index, and when no file is found its result is empty, whatever the index
\* holds.
DottedNeverAsksIndex ==
    Dotted =>
        /\ calls.workspaceSymbols = 0
        /\ (pc = "done" /\ fileUri = 0) => result = ReturnedNull

\* A dotted name with no file ends empty although the index holds a symbol
\* of that very name.
DottedWithNamesake ==
    /\ pc = "done" /\ Dotted
    /\ fileUri = 0 /\ IndexHoldsName
    /\ result = ReturnedNull

\* C5: the stages run in the order tokenizer, file resolver, symbol index:
\* once a file is found the result is the one location at line 0, column 0
\* of that file and the index was not queried; the index is queried only
\* after the file resolver ran; without a token neither is invoked.
StagesInOrder ==
    /\ (pc = "done" /\ fileUri # 0) =>
          /\ result = [kind |-> "location", uri |-> fileUri, line |-> 0, character |-> 0]
          /\ calls.workspaceSymbols = 0
    /\ calls.workspaceSymbols > 0 => (calls.findDryckFile > 0 /\ fileUri = 0)
    /\ (pc = "done" /\ name = Null) =>
          /\ result = ReturnedNull
          /\ calls = NoCalls

\* A file found by the workspace-wide search is returned while the index
\* holds a function of the same name.
FileBeforeIndex ==
    /\ pc = "done" /\ fileUri = 6 /\ result.kind = "location"
    /\ ~Dotted /\ IndexHoldsName /\ calls.workspaceSymbols = 0

\* C6: no reply of a capability, empty or undefined, ends the request in an
\* exception.
NeverThrows == pc # "threw"

(***************************************************************************)
(* findPythonDefinition and findContainingClassName on their own.          *)
(***************************************************************************)
\* Most symbols the index answers with.
MaxSyms == 2

\* The name asked for, and a longer name the index also matches.
Asked == <<"a">>
Longer == <<"a", "a">>

\* Line 4 is inside Page in every outline that has Page, line 8 is not.
PySymbols ==
    {WsSymbol(Asked, kind, container, ln) :
        kind \in {"Function", "Method", "Class"}, container \in {"", "Page"},
        ln \in {4, 8}}
    \cup {WsSymbol(Longer, "Function", "", 8), WsSymbol(Longer, "Method", "Page", 4)}

PyLines == 0..10

PyInit ==
    /\ \/ /\ pc = "findPythonDefinition"
          /\ wsSymbols \in {Undefined} \cup {List(s) : s \in SeqsUpTo(PySymbols, MaxSyms)}
          /\ pyLine = 0
       \/ /\ pc = "findContainingClassName"
          /\ wsSymbols = Undefined
          /\ pyLine \in PyLines
    /\ docSymbols \in Outlines
    /\ \E h \in Hierarchies : items = h.items /\ supers = h.supers
    /\ name = Asked
    /\ line = <<>> /\ col = 0 /\ token = NoToken /\ exists = {} /\ fileUri = 0
    /\ result = NoResult /\ calls = NoCalls
    /\ className = ""
    /\ queue = <<>> /\ visited = {} /\ steps = 0

FindPythonDefinition ==
    /\ pc = "findPythonDefinition"
    /\ Called("workspaceSymbols")
    /\ result' = ReturnedList(findPythonDefinition(name))
    /\ pc' = "done"
    /\ UNCHANGED <<line, col, token, name, exists, fileUri>>
    /\ PythonUnchanged

FindContainingClassName ==
    /\ pc = "findContainingClassName"
    /\ result' = [kind |-> "class", name |-> findContainingClassName(PyFile, pyLine)]
    /\ pc' = "done"
    /\ UNCHANGED <<line, col, token, name, exists, fileUri, calls>>
    /\ PythonUnchanged

PyNext == FindPythonDefinition \/ FindContainingClassName

SpecPy == PyInit /\ [][PyNext]_vars

\* The class a method is filed under: the index's hint, else the class
\* enclosing the match.
EnclosingClass(s) ==
    IF s.containerName # "" THEN s.containerName
    ELSE findContainingClassName(s.uri, s.line)

Wanted(s) ==
    /\ s.name = name
    /\ \/ s.kind = "Function"
       \/ /\ s.kind = "Method"
          /\ EnclosingClass(s) # ""
          /\ isContextSubclass(s.uri, EnclosingClass(s))

\* C3: findPythonDefinition returns exactly the subsequence, in the index's
\* order and with duplicates kept, of the symbols with the exact name that
\* are functions, or methods whose enclosing class (the hint, else the
\* class found at the match) is found and passes isContextSubclass.
FindPythonExactSubsequence ==
    (pc = "done" /\ result.kind = "list") =>
        LET kept == SelectSeq(wsSymbols.list, Wanted)
        IN  result.locations = [i \in 1..Len(kept) |-> [uri |-> kept[i].uri, line |-> kept[i].line]]

\* A method without a hint is kept through the class found at its line,
\* and the class symbol of the same name after it is dropped.
MethodKeptClassDropped ==
    /\ pc = "done" /\ result.kind = "list"
    /\ wsSymbols.list = <<WsSymbol(Asked, "Method", "", 4), WsSymbol(Asked, "Class", "", 4)>>
    /\ result.locations = <<[uri |-> PyFile, line |-> 4]>>

\* Every class symbol of the outline, nested ones included, whose range
\* brackets the line.
BracketingClasses(ln) ==
    LET top == {docSymbols.list[i] : i \in 1..Len(docSymbols.list)}
        all == top \cup UNION {{s.children[j] : j \in 1..Len(s.children)} : s \in top}
    IN  {s \in all : s.kind = "Class" /\ s.hasRange /\ s.startLine <= ln /\ ln <= s.endLine}

Innermost(ln) ==
    IF BracketingClasses(ln) = {} THEN ""
    ELSE (CHOOSE s \in BracketingClasses(ln) :
            \A t \in BracketingClasses(ln) :
                s.endLine - s.startLine <= t.endLine - t.startLine).name

\* C9: findContainingClassName returns the innermost class whose range
\* brackets the line, also when classes nest, and none when there is no
\* such class or no outline.
ContainingClassInnermost ==
    (pc = "done" /\ result.kind = "class") => result.name = Innermost(pyLine)

(***************************************************************************)
(* isContextSubclass on its own, one await at a time.                      *)
(***************************************************************************)
\* Most supertypes of a class and most items prepareTypeHierarchy answers.
MaxSupers == 2
MaxItems == 1

WalkNodes == {PageNode, MidNode, DecoyNode, BaseNode}
NodeOrder == <<PageNode, MidNode, DecoyNode, BaseNode>>
InOrder(S) == SelectSeq(NodeOrder, LAMBDA n : n \in S)

\* The supertype replies: any graph in which Page, Mid and the decoy have at
\* most MaxSupers supertypes each; the base has none, or no reply, or
\* inherits from Page.
Graphs ==
    {[n \in Nodes |->
        IF n = BaseNode THEN b
        ELSE IF n \in DOMAIN f THEN List(InOrder(f[n]))
        ELSE List(<<>>)] :
        f \in [WalkNodes \ {BaseNode} ->
                 {S \in SUBSET WalkNodes : Cardinality(S) <= MaxSupers}],
        b \in {Undefined, List(<<>>), List(<<PageNode>>)}}

WalkOutline == List(<<DocSym("Page", "Class", 1, 5), DocSym("Other", "Class", 7, 9)>>)

WalkInit ==
    /\ className = "Page"
    /\ \/ /\ docSymbols = WalkOutline
          /\ items \in [{"Page"} -> {Undefined} \cup {List(s) : s \in SeqsUpTo(WalkNodes, MaxItems)}]
          /\ supers \in Graphs
       \/ /\ docSymbols \in Outlines \ {WalkOutline}
          /\ \E h \in Hierarchies : items = h.items /\ supers = h.supers
    /\ pc = "isContextSubclass"
    /\ line = <<>> /\ col = 0 /\ token = NoToken /\ name = Null
    /\ exists = {} /\ fileUri = 0
    /\ result = NoResult /\ calls = NoCalls
    /\ wsSymbols = Undefined /\ pyLine = 0
    /\ queue = <<>> /\ visited = {} /\ steps = 0

Returned(b) == [kind |-> "bool", value |-> b]

WalkUnchanged ==
    UNCHANGED <<line, col, token, name, exists, fileUri, calls,
                wsSymbols, docSymbols, items, supers, className, pyLine>>

\* Lines 86-108: the outline, the class symbol, the hierarchy items.
WalkPrepare ==
    /\ pc = "isContextSubclass"
    /\ IF HasHierarchy(className)
       THEN /\ queue' = StartOfBfs(className).queue
            /\ visited' = StartOfBfs(className).visited
            /\ pc' = "while"
            /\ UNCHANGED result
       ELSE /\ result' = Returned(FALSE)
            /\ pc' = "done"
            /\ UNCHANGED <<queue, visited>>
    /\ UNCHANGED steps
    /\ WalkUnchanged

\* Lines 110-128: one turn of the while loop.
WalkExpand ==
    /\ pc = "while"
    /\ queue # <<>>
    /\ LET st == Expand([queue |-> queue, visited |-> visited,
                         steps |-> steps, found |-> FALSE])
       IN  /\ queue' = st.queue
           /\ visited' = st.visited
           /\ steps' = st.steps
           /\ IF st.found
              THEN result' = Returned(TRUE) /\ pc' = "done"
              ELSE UNCHANGED <<result, pc>>
    /\ WalkUnchanged

\* Line 130: the queue is empty.
WalkExhausted ==
    /\ pc = "while"
    /\ queue = <<>>
    /\ result' = Returned(FALSE)
    /\ pc' = "done"
    /\ UNCHANGED <<queue, visited, steps>>
    /\ WalkUnchanged

WalkNext == WalkPrepare \/ WalkExpand \/ WalkExhausted

SpecWalk == WalkInit /\ [][WalkNext]_vars

\* The supertype edges: the replies, an undefined reply being no edge.
SupersOf(n) == {supers[n].list[i] : i \in 1..Len(supers[n].list)}

\* The nodes reachable from the nodes of S by one or more supertype edges.
RECURSIVE Closure(_)
Closure(S) ==
    LET more == S \cup UNION {SupersOf(n) : n \in S}
    IN  IF more = S THEN S ELSE Closure(more)
Ancestors(S) == Closure(UNION {SupersOf(n) : n \in S})

Roots == {items[className].list[i] : i \in 1..Len(items[className].list)}

\* Some ancestor of the nodes of S is the well-known base: a node named
\* Context whose file path contains appeldryck.
BaseAmongAncestors(S) ==
    \E n \in Ancestors(S) : n.name = "Context" /\ IncludesAppeldryck(n.uri)

\* C10: with the class symbol and a non-empty list of hierarchy items at
\* hand, isContextSubclass returns true exactly when a node named Context
\* under an appeldryck path is reachable from an item by one or more
\* supertype edges; the items themselves are not tested.
TrueIffBaseIsAncestor ==
    (pc = "done" /\ HasHierarchy(className)) =>
        (result.value <=> BaseAmongAncestors(Roots))

\* The class asked about is the base itself, not its own ancestor, and the
\* answer is false.
BaseItselfIsNoSubclass ==
    /\ pc = "done" /\ HasHierarchy(className)
    /\ items[className].list = <<BaseNode>>
    /\ result.value = FALSE /\ steps > 0

\* C7: without type hierarchy items or without the class's outline symbol,
\* isContextSubclass still returns true for a class whose declared bases
\* lead to the base.
FallbackFindsBase ==
    (pc = "done" /\ ~HasHierarchy(className)
        /\ BaseAmongAncestors({NodeOfClass(className)}))
    => result.value = TRUE

\* C8: when the base is not reachable, isContextSubclass returns false
\* after at most as many supertype expansions as there are distinct classes
\* in the graph, cycles and diamonds included.
FalseWithinClassCount ==
    (pc = "done" /\ HasHierarchy(className) /\ ~BaseAmongAncestors(Roots))
    => /\ result.value = FALSE
       /\ steps <= Cardinality(Roots \cup Ancestors(Roots))

\* The search ends when the base is not reachable, after at most one
\* expansion per hierarchy item and one per class reached.
FalseWithinItemsAndClasses ==
    (pc \in {"while", "done"} /\ HasHierarchy(className))
    => steps <= Len(items[className].list) + Cardinality(Ancestors(Roots))

\* C4: on a line holding one reference token of any of the three forms, with
\* span [start, end], the tokenizer returns the token's name for every cursor
\* column from start to end, both included, and nothing at start - 1 and at
\* end + 1.
TokSpanInclusive ==
    pc = "extracted" =>
        /\ (col >= token.start /\ col <= token.end) => name = token.name
        /\ (col = token.start - 1 \/ col = token.end + 1) => name = Null

\* The cursor sits on the trailing edge of a colon-form token and resolves.
TokTrailingEdge ==
    /\ pc = "extracted" /\ token.form = "colon"
    /\ col = token.end /\ name = token.name /\ name # Null

====
